---- MODULE Spec2Model ----
(***************************************************************************)
(* Verification model of OAjames/kandeladev:                               *)
(*   - src/book_to_scrape.py : BookScraperETL (extract / transform / load  *)
(*     / run_pipeline / main), specification Spec;                         *)
(*   - src/book_to_scrape.py : _extract_stock_quantity and the in_stock    *)
(*     lambda as pure functions of the availability text, SpecStock;       *)
(*   - src/Snake.py : SnakeGame (on_key_press / update), SpecSnake.        *)
(* Strings are TLC strings; a character is a substring of length one.      *)
(***************************************************************************)
EXTENDS Integers, Sequences, FiniteSets, TLC

VARIABLES
  \* ---- BookScraperETL ----
  books_data,     \* self.books_data: the raw-record buffer
  pc,             \* position of the caller / pipeline
  max_pages,      \* argument of the running extract() call
  page_num,       \* loop variable of extract()
  remaining,      \* books of the current page not yet visited by the inner loop
  driver,         \* "none" | "open" | "quit": the selenium driver of the extract() call
  attempted,      \* pages whose URL was built and fetched in this call, in order
  error_log,      \* pages for which logger.error was called in this call
  quits,          \* number of driver.quit() calls in this call
  calls,          \* history: the records each extract() call appended, per call
  df,             \* cleaned_df of the current run_pipeline call (empty until assigned)
  warnings,       \* logger.warning messages of the current run_pipeline call
  csv,            \* rows the current call's to_csv wrote
  summary,        \* <<what the current call's _print_summary printed>>, or <<>>
  \* ---- availability text functions ----
  text,           \* an availability text
  stock_quantity, \* _extract_stock_quantity(text), once computed
  in_stock,       \* the in_stock column value for text, once computed
  spc,            \* "idle" | "input" | "flagged" | "done"
  \* ---- SnakeGame ----
  snake, direction, next_direction, food, game_over, score

etl_vars == <<books_data, pc, max_pages, page_num, remaining, driver, attempted,
              error_log, quits, calls, df, warnings, csv, summary>>
stock_vars == <<text, stock_quantity, in_stock, spc>>
snake_vars == <<snake, direction, next_direction, food, game_over, score>>
vars == <<etl_vars, stock_vars, snake_vars>>

(***************************************************************************)
(* Bounds of the model                                                     *)
(***************************************************************************)
MaxPages == 2          \* largest max_pages passed to extract()
MaxBooksPerPage == 2   \* most product_pod articles found on one page
MaxBuf == 3            \* the site serves at most this many records in all
MaxRuns == 2           \* run_pipeline() calls on the one instance
MaxChunks == 4         \* chunks an availability text is built from
MaxFood == 1           \* food items the snake may eat (update() waits at the cap)
GRID_WIDTH == 8        \* the grid, scaled down from 30 (Snake.py:10); 8 is the least
GRID_HEIGHT == 2       \* width that holds the initial snake; scaled down from 20

(***************************************************************************)
(* Python str operations                                                   *)
(***************************************************************************)
Char(s, i) == SubSeq(s, i, i)
Rest(s, i) == SubSeq(s, i, Len(s))          \* s[i-1:]
WHITESPACE == {" ", "\t", "\n"}
DIGITS == "0123456789"
IsDigit(c) == \E i \in 1..Len(DIGITS) : Char(DIGITS, i) = c
DigitVal(c) == (CHOOSE i \in 1..Len(DIGITS) : Char(DIGITS, i) = c) - 1

StartsWith(s, p) == Len(s) >= Len(p) /\ SubSeq(s, 1, Len(p)) = p

\* p in s
Contains(s, p) == \E i \in 1..(Len(s) - Len(p) + 1) : SubSeq(s, i, i + Len(p) - 1) = p

RECURSIVE LStrip(_)
LStrip(s) == IF s # "" /\ Char(s, 1) \in WHITESPACE THEN LStrip(Rest(s, 2)) ELSE s

RECURSIVE RStrip(_)
RStrip(s) ==
  IF s # "" /\ Char(s, Len(s)) \in WHITESPACE THEN RStrip(SubSeq(s, 1, Len(s) - 1)) ELSE s

\* str.strip()
Strip(s) == RStrip(LStrip(s))

\* str.replace(old, new): every non-overlapping occurrence, left to right
RECURSIVE StrReplace(_, _, _)
StrReplace(s, old, new) ==
  IF s = "" THEN ""
  ELSE IF StartsWith(s, old)
       THEN new \o StrReplace(Rest(s, Len(old) + 1), old, new)
       ELSE Char(s, 1) \o StrReplace(Rest(s, 2), old, new)

\* number of leading decimal digits of s
RECURSIVE DigitRun(_)
DigitRun(s) == IF s # "" /\ IsDigit(Char(s, 1)) THEN 1 + DigitRun(Rest(s, 2)) ELSE 0

\* int(s) for a string of decimal digits
RECURSIVE ToInt(_)
ToInt(s) ==
  IF s = "" THEN 0 ELSE 10 * ToInt(SubSeq(s, 1, Len(s) - 1)) + DigitVal(Char(s, Len(s)))

RECURSIVE Pow10(_)
Pow10(k) == IF k = 0 THEN 1 ELSE 10 * Pow10(k - 1)

(***************************************************************************)
(* float values: a decimal m / 10^k, kept normalised (no trailing zero in  *)
(* the fraction), so that equal numbers are equal values.                  *)
(***************************************************************************)
RECURSIVE Dec(_, _)
Dec(m, k) == IF k > 0 /\ m % 10 = 0 THEN Dec(m \div 10, k - 1) ELSE [m |-> m, k |-> k]

DecLt(a, b) == a.m * Pow10(b.k) < b.m * Pow10(a.k)

ValueError == [ok |-> FALSE]

\* float(s) on the strings of the model: optional surrounding whitespace, an
\* optional sign, digits with an optional fraction; anything else raises ValueError.
ToFloat(s) ==
  LET t == Strip(s)
      signed == t # "" /\ Char(t, 1) \in {"+", "-"}
      u == IF signed THEN Rest(t, 2) ELSE t
      n == DigitRun(u)
      ip == SubSeq(u, 1, n)
      v == Rest(u, n + 1)
      dotted == v # "" /\ Char(v, 1) = "."
      fp == IF dotted THEN Rest(v, 2) ELSE ""
      wellformed == /\ DigitRun(fp) = Len(fp)
                    /\ dotted \/ v = ""
                    /\ n + Len(fp) > 0
      mag == ToInt(ip \o fp)
  IN IF wellformed
     THEN [ok |-> TRUE,
           val |-> Dec(IF signed /\ Char(t, 1) = "-" THEN 0 - mag ELSE mag, Len(fp))]
     ELSE ValueError

(***************************************************************************)
(* transform(): the column rules                                           *)
(***************************************************************************)
NaN == <<>>     \* a missing rating_numeric; a present one is <<n>>

rating_map == [l \in {"One", "Two", "Three", "Four", "Five"} |->
                 CASE l = "One" -> 1 [] l = "Two" -> 2 [] l = "Three" -> 3
                   [] l = "Four" -> 4 [] l = "Five" -> 5]

\* Series.map(rating_map): a label that is no key maps to NaN
MapRating(label) == IF label \in DOMAIN rating_map THEN <<rating_map[label]>> ELSE NaN

\* the currency symbol of line 128, U+00A3; the model writes it "#", TLC's state
\* files holding ASCII strings only
POUND == "#"

\* df['price'].str.replace(POUND, '') then float()
PriceGbp(price) == ToFloat(StrReplace(price, POUND, ""))

InStock(x) == IF Contains(x, "In stock") THEN "Yes" ELSE "No"

\* faulty variant of ReSearch (C5 must tell them apart): re.match, which finds a
\* match at the start of s only
ReMatch(s) ==
  LET n == DigitRun(Rest(s, 2))
  IN IF /\ s # ""
        /\ Char(s, 1) = "("
        /\ n >= 1
        /\ StartsWith(Rest(s, n + 2), " available)")
     THEN <<SubSeq(s, 2, n + 1)>>
     ELSE <<>>

\* re.search(r'\((\d+) available\)', s): the digits of the leftmost match, as <<digits>>,
\* or <<>> when nothing matches
RECURSIVE ReSearch(_)
ReSearch(s) ==
  IF s = "" THEN <<>>
  ELSE LET n == DigitRun(Rest(s, 2))
       IN IF /\ Char(s, 1) = "("
             /\ n >= 1
             /\ StartsWith(Rest(s, n + 2), " available)")
          THEN <<SubSeq(s, 2, n + 1)>>
          ELSE ReSearch(Rest(s, 2))

_extract_stock_quantity(availability_text) ==
  LET match == ReSearch(availability_text)
  IN IF match # <<>> THEN ToInt(match[1]) ELSE 0

FullUrl(product_url) ==
  "http://books.toscrape.com/catalogue/" \o StrReplace(product_url, "../../../", "")

\* the values lines 128-152 compute from one raw record
ColumnsOf(r) ==
  [title |-> Strip(r.title),
   price |-> PriceGbp(r.price),
   rating_numeric |-> MapRating(r.rating),
   in_stock |-> InStock(r.availability),
   stock_quantity |-> _extract_stock_quantity(r.availability),
   full_url |-> FullUrl(r.product_url)]

\* faulty variant of DropDuplicates (C1 must tell them apart): keep='last'
DropDuplicatesKeepLast(rows) ==
  LET keep == {i \in DOMAIN rows : \A j \in DOMAIN rows : j > i => rows[j].title # rows[i].title}
      F[n \in 0..Len(rows)] ==
        IF n = 0 THEN <<>> ELSE IF n \in keep THEN Append(F[n - 1], rows[n]) ELSE F[n - 1]
  IN F[Len(rows)]

\* df.drop_duplicates(subset=['title'], keep='first')
DropDuplicates(rows) ==
  LET keep == {i \in DOMAIN rows : \A j \in DOMAIN rows : j < i => rows[j].title # rows[i].title}
      F[n \in 0..Len(rows)] ==
        IF n = 0 THEN <<>> ELSE IF n \in keep THEN Append(F[n - 1], rows[n]) ELSE F[n - 1]
  IN F[Len(rows)]

\* faulty variant of SortBefore (C2 must tell them apart): rows equal in both keys
\* count as out of order, which reverses them
SortBeforeOrEqual(a, b) ==
  IF a.rating_numeric = b.rating_numeric
  THEN ~DecLt(b.price_gbp, a.price_gbp)
  ELSE IF a.rating_numeric = NaN THEN FALSE
  ELSE IF b.rating_numeric = NaN THEN TRUE
  ELSE a.rating_numeric[1] > b.rating_numeric[1]

\* sort key order of sort_values(['rating_numeric', 'price_gbp'], ascending=[False, True])
\* with na_position='last': a sorts strictly before b
SortBefore(a, b) ==
  IF a.rating_numeric = b.rating_numeric
  THEN DecLt(a.price_gbp, b.price_gbp)
  ELSE IF a.rating_numeric = NaN THEN FALSE
  ELSE IF b.rating_numeric = NaN THEN TRUE
  ELSE a.rating_numeric[1] > b.rating_numeric[1]

\* the multi-column sort is a stable lexicographic sort: a row goes before the
\* first row it sorts strictly before
SortInsert(sorted, x) ==
  LET later == {i \in DOMAIN sorted : SortBefore(x, sorted[i])}
      at == IF later = {} THEN Len(sorted) + 1
            ELSE CHOOSE i \in later : \A j \in later : i <= j
  IN SubSeq(sorted, 1, at - 1) \o <<x>> \o SubSeq(sorted, at, Len(sorted))

SortValues(rows) ==
  LET F[n \in 0..Len(rows)] == IF n = 0 THEN <<>> ELSE SortInsert(F[n - 1], rows[n])
  IN F[Len(rows)]

\* pd.DataFrame(): no rows, no columns
EmptyFrame == [columns |-> FALSE, rows |-> <<>>]

(***************************************************************************)
(* _print_summary: the counts and extremes it prints (the two means are    *)
(* printed from the same columns and are not kept)                         *)
(***************************************************************************)
SummaryOf(rows) ==
  [count |-> Len(rows),
   min_price |-> rows[CHOOSE i \in DOMAIN rows :
                      \A j \in DOMAIN rows : ~DecLt(rows[j].price_gbp, rows[i].price_gbp)].price_gbp,
   max_price |-> rows[CHOOSE i \in DOMAIN rows :
                      \A j \in DOMAIN rows : ~DecLt(rows[i].price_gbp, rows[j].price_gbp)].price_gbp,
   in_stock |-> Cardinality({i \in DOMAIN rows : rows[i].in_stock = "Yes"}),
   out_of_stock |-> Cardinality({i \in DOMAIN rows : rows[i].in_stock = "No"}),
   rating_counts |-> [l \in {rows[i].rating : i \in DOMAIN rows} |->
                        Cardinality({i \in DOMAIN rows : rows[i].rating = l})]]

(***************************************************************************)
(* The raw records the site can serve (what _extract_book_details returns) *)
(***************************************************************************)
Book(t, p, a, r, u) ==
  [title |-> t, price |-> p, availability |-> a, rating |-> r, product_url |-> u]

Catalog ==
  { Book(" Sample ", "#51.77", "In stock (22 available)", "Three", "../../../sample/index.html"),
    Book("Sample", "#7", "Out of stock", "Five", "../../../sample_2/index.html"),
    Book("Other", "#51.770", "In stock", "Three", "../../../other/index.html"),
    Book("Odd Rating", "#2", "In stock (3 available)", "Zero", "../../../odd/index.html"),
    Book("Bad Price", "#x", "In stock (1 available)", "Two", "../../../bad/index.html"),
    Book("Refund", "#-1", "in stock (0 available)", "One", "../../../refund/index.html") }

\* ColumnsOf tabulated over the records the site serves
CatalogColumns == [r \in Catalog |-> ColumnsOf(r)]

Columns(r) == IF r \in Catalog THEN CatalogColumns[r] ELSE ColumnsOf(r)

\* one row of df after the column assignments and the column reorder
CleanRow(r) ==
  [title |-> Columns(r).title,
   price_gbp |-> Columns(r).price.val,
   rating |-> r.rating,
   rating_numeric |-> Columns(r).rating_numeric,
   in_stock |-> Columns(r).in_stock,
   stock_quantity |-> Columns(r).stock_quantity,
   full_url |-> Columns(r).full_url]

\* astype(float) raises ValueError as soon as one price is no number
TransformRaises(data) == \E i \in DOMAIN data : ~Columns(data[i]).price.ok

\* the frame transform() returns for a non-empty buffer it does not raise on
TransformFrame(data) ==
  [columns |-> TRUE,
   rows |-> SortValues(DropDuplicates([i \in DOMAIN data |-> CleanRow(data[i])]))]

Min(a, b) == IF a < b THEN a ELSE b

RECURSIVE Flatten(_)
Flatten(ss) == IF ss = <<>> THEN <<>> ELSE Head(ss) \o Flatten(Tail(ss))

InExtract == pc \in {"loop", "books"}

(***************************************************************************)
(* BookScraperETL                                                          *)
(***************************************************************************)
ETLInit ==
  /\ books_data = <<>>
  /\ pc = "idle"
  /\ max_pages = 0
  /\ page_num = 0
  /\ remaining = 0
  /\ driver = "none"
  /\ attempted = <<>>
  /\ error_log = {}
  /\ quits = 0
  /\ calls = <<>>
  /\ df = EmptyFrame
  /\ warnings = {}
  /\ csv = <<>>
  /\ summary = <<>>

\* faulty variant of RunPipeline (C9 must tell them apart): extract() starts from an
\* empty buffer
RunPipelineResetsBuffer(mp) ==
  /\ pc \in {"idle", "returned", "raised", "reported"}
  /\ Len(calls) < MaxRuns
  /\ books_data' = <<>>
  /\ max_pages' = mp
  /\ page_num' = 0
  /\ remaining' = 0
  /\ driver' = "open"
  /\ attempted' = <<>>
  /\ error_log' = {}
  /\ quits' = 0
  /\ calls' = Append(calls, <<>>)
  /\ warnings' = {}
  /\ df' = EmptyFrame
  /\ csv' = <<>>
  /\ summary' = <<>>
  /\ pc' = "loop"
  /\ UNCHANGED <<stock_vars, snake_vars>>

\* run_pipeline(max_pages) up to the head of extract()'s page loop: the driver is
\* created; the buffer is the instance's, as it is
RunPipeline(mp) ==
  /\ pc \in {"idle", "returned", "raised", "reported"}
  /\ Len(calls) < MaxRuns
  /\ max_pages' = mp
  /\ page_num' = 0
  /\ remaining' = 0
  /\ driver' = "open"
  /\ attempted' = <<>>
  /\ error_log' = {}
  /\ quits' = 0
  /\ calls' = Append(calls, <<>>)
  /\ warnings' = {}
  /\ df' = EmptyFrame
  /\ csv' = <<>>
  /\ summary' = <<>>
  /\ pc' = "loop"
  /\ UNCHANGED <<stock_vars, snake_vars, books_data>>

\* for page_num in range(1, max_pages + 1): the next page's URL is built; driver.get,
\* BeautifulSoup and find_all succeed and find n articles
FetchOk(n) ==
  /\ pc = "loop"
  /\ page_num < max_pages
  /\ page_num' = page_num + 1
  /\ attempted' = Append(attempted, page_num + 1)
  /\ remaining' = n
  /\ pc' = "books"
  /\ UNCHANGED <<stock_vars, snake_vars, books_data, max_pages, driver, error_log, quits, calls, df, warnings,
                 csv, summary>>

\* the next page's URL is built; driver.get or the parse raises: except Exception logs
\* the error and continues with the page after
FetchFail ==
  /\ pc = "loop"
  /\ page_num < max_pages
  /\ page_num' = page_num + 1
  /\ attempted' = Append(attempted, page_num + 1)
  /\ error_log' = error_log \cup {page_num + 1}
  /\ UNCHANGED <<stock_vars, snake_vars, books_data, pc, max_pages, remaining, driver, quits, calls, df, warnings,
                 csv, summary>>

\* one round of the inner loop: _extract_book_details returns r, which is appended
AppendBook(r) ==
  /\ pc = "books"
  /\ remaining > 0
  /\ books_data' = Append(books_data, r)
  /\ calls' = [calls EXCEPT ![Len(calls)] = Append(@, r)]
  /\ remaining' = remaining - 1
  /\ UNCHANGED <<stock_vars, snake_vars, pc, max_pages, page_num, driver, attempted, error_log, quits, df,
                 warnings, csv, summary>>

\* faulty variant of BookFail (C8 must tell them apart): the handler leaves the page
\* loop
BookFailBreaks ==
  /\ pc = "books"
  /\ remaining > 0
  /\ error_log' = error_log \cup {page_num}
  /\ remaining' = 0
  /\ page_num' = max_pages
  /\ pc' = "loop"
  /\ UNCHANGED <<stock_vars, snake_vars, books_data, max_pages, driver, attempted, quits, calls, df,
                 warnings, csv, summary>>

\* _extract_book_details raises on an article: except Exception logs the error and
\* continues with the page after
BookFail ==
  /\ pc = "books"
  /\ remaining > 0
  /\ error_log' = error_log \cup {page_num}
  /\ remaining' = 0
  /\ pc' = "loop"
  /\ UNCHANGED <<stock_vars, snake_vars, books_data, max_pages, page_num, driver, attempted, quits, calls, df,
                 warnings, csv, summary>>

\* the inner loop is done: logger.info, time.sleep(1), on to the page after
PageDone ==
  /\ pc = "books"
  /\ remaining = 0
  /\ pc' = "loop"
  /\ UNCHANGED <<stock_vars, snake_vars, books_data, max_pages, page_num, remaining, driver, attempted, error_log,
                 quits, calls, df, warnings, csv, summary>>

\* the page loop is exhausted: finally: driver.quit(); return self.books_data
ExtractReturn ==
  /\ pc = "loop"
  /\ page_num >= max_pages
  /\ driver' = "quit"
  /\ quits' = quits + 1
  /\ pc' = "extracted"
  /\ UNCHANGED <<stock_vars, snake_vars, books_data, max_pages, page_num, remaining, attempted, error_log, calls,
                 df, warnings, csv, summary>>

\* run_pipeline has moved on from extract(): the call's locals are gone
ExtractFrameDropped ==
  /\ max_pages' = 0
  /\ page_num' = 0
  /\ remaining' = 0
  /\ driver' = "none"
  /\ attempted' = <<>>
  /\ error_log' = {}
  /\ quits' = 0

\* transform() on an empty buffer: warning, pd.DataFrame()
TransformEmpty ==
  /\ pc = "extracted"
  /\ books_data = <<>>
  /\ warnings' = warnings \cup {"No data to transform"}
  /\ df' = EmptyFrame
  /\ pc' = "transformed"
  /\ ExtractFrameDropped
  /\ UNCHANGED <<stock_vars, snake_vars, books_data, calls, csv, summary>>

\* faulty variant of TransformOk (C7 must tell them apart): the title column is
\* trimmed in the buffer's records too
TransformOkInPlace ==
  /\ pc = "extracted"
  /\ books_data # <<>>
  /\ ~TransformRaises(books_data)
  /\ df' = TransformFrame(books_data)
  /\ books_data' = [i \in DOMAIN books_data |->
                      [books_data[i] EXCEPT !.title = Strip(@)]]
  /\ pc' = "transformed"
  /\ ExtractFrameDropped
  /\ UNCHANGED <<stock_vars, snake_vars, calls, warnings, csv, summary>>

\* transform() returning the cleaned frame; every column assignment is on df, the
\* copy pd.DataFrame(self.books_data) made
TransformOk ==
  /\ pc = "extracted"
  /\ books_data # <<>>
  /\ ~TransformRaises(books_data)
  /\ df' = TransformFrame(books_data)
  /\ pc' = "transformed"
  /\ ExtractFrameDropped
  /\ UNCHANGED <<stock_vars, snake_vars, books_data, calls, warnings, csv, summary>>

\* transform() raising ValueError out of astype(float); run_pipeline propagates it
TransformRaise ==
  /\ pc = "extracted"
  /\ books_data # <<>>
  /\ TransformRaises(books_data)
  /\ pc' = "raised"
  /\ ExtractFrameDropped
  /\ UNCHANGED <<stock_vars, snake_vars, books_data, calls, df, warnings, csv, summary>>

\* load() on an empty frame: warning and return; run_pipeline returns the frame
LoadEmpty ==
  /\ pc = "transformed"
  /\ df.rows = <<>>
  /\ warnings' = warnings \cup {"No data to load"}
  /\ pc' = "returned"
  /\ UNCHANGED <<stock_vars, snake_vars, books_data, max_pages, page_num, remaining, driver, attempted, error_log,
                 quits, calls, df, csv, summary>>

\* load(): to_csv succeeds, then _print_summary
LoadOk ==
  /\ pc = "transformed"
  /\ df.rows # <<>>
  /\ csv' = df.rows
  /\ summary' = <<SummaryOf(df.rows)>>
  /\ pc' = "returned"
  /\ UNCHANGED <<stock_vars, snake_vars, books_data, max_pages, page_num, remaining, driver, attempted, error_log,
                 quits, calls, df, warnings>>

\* load(): to_csv raises; the error is logged and nothing is printed
LoadFail ==
  /\ pc = "transformed"
  /\ df.rows # <<>>
  /\ pc' = "returned"
  /\ UNCHANGED <<stock_vars, snake_vars, books_data, max_pages, page_num, remaining, driver, attempted, error_log,
                 quits, calls, df, warnings, csv, summary>>

\* main() after run_pipeline: df.head().to_string(), then
\* df.nsmallest(5, 'price_gbp'), a KeyError on a frame without columns
MainReport ==
  /\ pc = "returned"
  /\ pc' = IF df.columns THEN "reported" ELSE "crashed"
  /\ UNCHANGED <<stock_vars, snake_vars, books_data, max_pages, page_num, remaining, driver, attempted, error_log,
                 quits, calls, df, warnings, csv, summary>>

Next ==
  \/ \E mp \in 0..MaxPages : RunPipeline(mp)
  \/ \E n \in 0..Min(MaxBooksPerPage, MaxBuf - Len(books_data)) : FetchOk(n)
  \/ FetchFail
  \/ \E r \in Catalog : AppendBook(r)
  \/ BookFail
  \/ PageDone
  \/ ExtractReturn
  \/ TransformEmpty
  \/ TransformOk
  \/ TransformRaise
  \/ LoadEmpty
  \/ LoadOk
  \/ LoadFail
  \/ MainReport

StockIdle == text = "" /\ stock_quantity = 0 /\ in_stock = "No" /\ spc = "idle"
SnakeIdle ==
  /\ snake = <<>> /\ direction = <<1, 0>> /\ next_direction = <<1, 0>>
  /\ food = <<0, 0>> /\ game_over = FALSE /\ score = 0

Init == ETLInit /\ StockIdle /\ SnakeIdle
Spec == Init /\ [][Next]_vars


(***************************************************************************)
(* Properties of BookScraperETL, checked under Spec                        *)
(***************************************************************************)
\* transform() has returned a frame to run_pipeline (df is that frame)
Transformed == pc \in {"transformed", "returned", "reported", "crashed"}

Titles(data) == {Columns(data[i]).title : i \in DOMAIN data}

\* the first record of data whose trimmed title is t
FirstIndex(data, t) ==
  CHOOSE i \in DOMAIN data :
    /\ Columns(data[i]).title = t
    /\ \A j \in 1..(i - 1) : Columns(data[j]).title # t

Range(seq) == {seq[i] : i \in DOMAIN seq}

IsPrefix(a, b) == Len(a) <= Len(b) /\ SubSeq(b, 1, Len(a)) = a

\* C1: whatever the buffer, the frame transform() returns holds exactly one row per
\* distinct trimmed title of the buffer, and that row is the cleaned first buffer
\* record with this title (every later record with the title is dropped).
C1_OneRowPerTitleFirstWins ==
  Transformed =>
    /\ \A t \in Titles(books_data) :
         Cardinality({k \in DOMAIN df.rows : df.rows[k].title = t}) = 1
    /\ \A k \in DOMAIN df.rows :
         /\ df.rows[k].title \in Titles(books_data)
         /\ df.rows[k] = CleanRow(books_data[FirstIndex(books_data, df.rows[k].title)])

\* a frame was returned for a buffer holding two records of one title with different
\* prices
C1_Witness ==
  /\ Transformed
  /\ \E i, j \in DOMAIN books_data :
       /\ i < j
       /\ Columns(books_data[i]).title = Columns(books_data[j]).title
       /\ books_data[i].price # books_data[j].price
       /\ \E k \in DOMAIN df.rows : df.rows[k] = CleanRow(books_data[i])

C3_RatingContract ==
  (Transformed \/ pc = "raised") =>
    /\ \A k \in DOMAIN df.rows :
         /\ df.rows[k].rating \in DOMAIN rating_map
         /\ df.rows[k].rating_numeric = <<rating_map[df.rows[k].rating]>>
         /\ df.rows[k].rating_numeric[1] \in 1..5
    /\ (\E i \in DOMAIN books_data : books_data[i].rating \notin DOMAIN rating_map) =>
         pc = "raised"

\* price with only a leading currency symbol removed
StripLeadingSymbol(price) == IF StartsWith(price, POUND) THEN Rest(price, 2) ELSE price

\* C4: every row transform() returns has price_gbp >= 0, the number left after
\* removing the leading currency symbol of its record's price; a record whose
\* remainder is no non-negative number makes transform() raise.
C4_PriceContract ==
  (Transformed \/ pc = "raised") =>
    /\ \A k \in DOMAIN df.rows :
         LET f == ToFloat(StripLeadingSymbol(
                    books_data[FirstIndex(books_data, df.rows[k].title)].price))
         IN /\ f.ok
            /\ f.val = df.rows[k].price_gbp
            /\ df.rows[k].price_gbp.m >= 0
    /\ (\E i \in DOMAIN books_data :
          LET f == ToFloat(StripLeadingSymbol(books_data[i].price))
          IN ~f.ok \/ f.val.m < 0) =>
         pc = "raised"

\* C6: with an empty buffer transform() returns an empty frame with a warning and no
\* later stage faults, main()'s reporting included.
C6_EmptyNeverFaults ==
  (books_data = <<>> /\ (Transformed \/ pc = "raised")) =>
    /\ df.rows = <<>>
    /\ "No data to transform" \in warnings
    /\ pc \notin {"raised", "crashed"}

\* C7: a transform() step, returning or raising, leaves the buffer as it was.
C7_TransformLeavesBuffer == [][pc = "extracted" => books_data' = books_data]_vars

\* transform() has returned for a buffer that holds an untrimmed title
C7_Witness ==
  /\ pc = "transformed"
  /\ \E i \in DOMAIN books_data : Columns(books_data[i]).title # books_data[i].title

\* in every state of a call: the pages attempted are 1..page_num in order, errors are
\* logged for attempted pages only, the driver is open inside the loop, and on return
\* every page was attempted and the driver was quit once
C8_StateInv ==
  /\ attempted = [i \in 1..page_num |-> i]
  /\ error_log \subseteq Range(attempted)
  /\ InExtract => (driver = "open" /\ quits = 0 /\ page_num <= max_pages)
  /\ pc = "extracted" =>
       (driver = "quit" /\ quits = 1 /\ attempted = [i \in 1..max_pages |-> i])

\* in every step inside the loop: the buffer only grows at its end, and a step that
\* logs an error for a page leaves the buffer alone and goes back to the loop head
C8_StepInv ==
  /\ (InExtract /\ InExtract') => IsPrefix(books_data, books_data')
  /\ (InExtract /\ InExtract' /\ error_log' # error_log) =>
       /\ \E p \in 1..max_pages : p = page_num' /\ error_log' = error_log \cup {p}
       /\ books_data' = books_data
       /\ attempted' \in {attempted, Append(attempted, page_num')}
       /\ pc' = "loop"

\* C8: extract() attempts pages 1..max_pages once each in ascending order whatever
\* fails; a failure on a page is logged, leaves the buffer as it is (the records the
\* page appended included), and the loop goes on; the driver is open during the loop
\* and quit exactly once when the call returns.
C8_ExtractAttemptsEveryPage == [](C8_StateInv) /\ [][C8_StepInv]_vars

\* a call of two pages returned with both pages failed and a record in the buffer
\* that a failing page appended
C8_Witness ==
  /\ pc = "extracted"
  /\ max_pages = 2
  /\ error_log = {1, 2}
  /\ Len(calls) = 1
  /\ books_data # <<>>

\* transform()'s result for a buffer transform() does not raise on
TransformResult(data) == IF data = <<>> THEN EmptyFrame ELSE TransformFrame(data)

\* C9: the buffer is the records of the calls so far, call after call; the frame
\* returned after a later call holds, for every title of the first call, the cleaned
\* first record of the first call with that title; when the second call got the
\* records of the first, the frame equals the frame the first call's records give.
C9_BufferAccumulates ==
  /\ books_data = Flatten(calls)
  /\ (Transformed /\ Len(calls) >= 2) =>
       \A i \in DOMAIN calls[1] :
         LET t == Columns(calls[1][i]).title
         IN \E k \in DOMAIN df.rows :
              /\ df.rows[k].title = t
              /\ df.rows[k] = CleanRow(calls[1][FirstIndex(calls[1], t)])
  /\ (Transformed /\ Len(calls) = 2 /\ calls[2] = calls[1]) =>
       df = TransformResult(calls[1])

\* after a second call a frame was returned, and the second call brought a record
\* whose title the first call had seen with another price
C9_Witness ==
  /\ Transformed
  /\ Len(calls) = 2
  /\ \E i \in DOMAIN calls[1] : \E j \in DOMAIN calls[2] :
       /\ Columns(calls[1][i]).title = Columns(calls[2][j]).title
       /\ calls[1][i].price # calls[2][j].price


(***************************************************************************)
(* The availability columns as functions of one availability text:         *)
(* transform() lines 141-146 applied to a single cell                      *)
(***************************************************************************)
Chunks == {"In stock", "in stock", " ", "(", ")", "2", "05", " available)", "(7 available)"}

RECURSIVE TextsOf(_)
TextsOf(n) ==
  IF n = 0 THEN {""} ELSE {""} \cup {c \o t : c \in Chunks, t \in TextsOf(n - 1)}

StockInit ==
  /\ text \in TextsOf(MaxChunks)
  /\ stock_quantity = 0
  /\ in_stock = "No"
  /\ spc = "input"

\* df['in_stock'] = df['availability'].apply(lambda x: 'Yes' if 'In stock' in x else 'No')
ApplyInStock ==
  /\ spc = "input"
  /\ in_stock' = InStock(text)
  /\ spc' = "flagged"
  /\ UNCHANGED <<etl_vars, snake_vars, text, stock_quantity>>

\* df['stock_quantity'] = df['availability'].apply(self._extract_stock_quantity)
ApplyExtractStockQuantity ==
  /\ spc = "flagged"
  /\ stock_quantity' = _extract_stock_quantity(text)
  /\ spc' = "done"
  /\ UNCHANGED <<etl_vars, snake_vars, text, in_stock>>

NextStock == ApplyInStock \/ ApplyExtractStockQuantity

InitStock == ETLInit /\ StockInit /\ SnakeIdle
SpecStock == InitStock /\ [][NextStock]_vars

\* the positions <<i, j>> of text where "(", the digits text[i+1..j] and " available)"
\* stand in a row
CountsIn(t) ==
  {ij \in {<<i, j>> : i \in {i \in 1..Len(t) : Char(t, i) = "("}, j \in 1..Len(t)} :
     /\ ij[1] < ij[2]
     /\ \A k \in (ij[1] + 1)..ij[2] : IsDigit(Char(t, k))
     /\ ij[2] + 11 <= Len(t)
     /\ SubSeq(t, ij[2] + 1, ij[2] + 11) = " available)"}

\* C5: the quantity computed for a text is a natural number: the N of the leftmost
\* "(N available)" in the text, and 0 when the text holds none; the in_stock value is
\* "Yes" exactly when "In stock" occurs in the text, whatever the quantity.
C5_StockQuantity ==
  spc = "done" =>
    /\ stock_quantity \in Nat
    /\ CountsIn(text) = {} => stock_quantity = 0
    /\ \A ij \in CountsIn(text) :
         (\A other \in CountsIn(text) : ij[1] <= other[1]) =>
           stock_quantity = ToInt(SubSeq(text, ij[1] + 1, ij[2]))
    /\ in_stock = "Yes" <=> \E i \in 1..(Len(text) - 7) : SubSeq(text, i, i + 7) = "In stock"

\* a text that is not in stock and still carries a count, after a count-less start
C5_Witness ==
  /\ spc = "done"
  /\ in_stock = "No"
  /\ stock_quantity > 0
  /\ ~StartsWith(text, "(")

(***************************************************************************)
(* SnakeGame (Snake.py)                                                    *)
(***************************************************************************)
SNAKE_INITIAL_LENGTH == 5

Cells == (0..(GRID_WIDTH - 1)) \X (0..(GRID_HEIGHT - 1))

\* self.snake after __init__
InitialSnake ==
  [i \in 1..SNAKE_INITIAL_LENGTH |-> <<(GRID_WIDTH \div 2) - (i - 1), GRID_HEIGHT \div 2>>]

\* the positions random_food_position() can return
FreeCells(body) == Cells \ Range(body)

SnakeInit ==
  /\ snake = InitialSnake
  /\ direction = <<1, 0>>
  /\ next_direction = <<1, 0>>
  /\ food \in FreeCells(InitialSnake)
  /\ game_over = FALSE
  /\ score = 0

\* the direction an arrow key (or its WASD twin) asks for
Turn(symbol) ==
  CASE symbol = "UP" -> <<0, 1>>
    [] symbol = "DOWN" -> <<0, -1>>
    [] symbol = "LEFT" -> <<-1, 0>>
    [] symbol = "RIGHT" -> <<1, 0>>

Keys == {"UP", "DOWN", "LEFT", "RIGHT", "SPACE"}

\* on_key_press: a direction key sets next_direction unless the snake is heading the
\* opposite way; SPACE runs __init__ again when the game is over, and nothing otherwise
on_key_press(symbol) ==
  IF symbol = "SPACE"
  THEN IF game_over
       THEN /\ snake' = InitialSnake
            /\ direction' = <<1, 0>>
            /\ next_direction' = <<1, 0>>
            /\ food' \in FreeCells(InitialSnake)
            /\ game_over' = FALSE
            /\ score' = 0
            /\ UNCHANGED <<etl_vars, stock_vars>>
       ELSE UNCHANGED vars
  ELSE /\ next_direction' =
            IF direction # <<0 - Turn(symbol)[1], 0 - Turn(symbol)[2]>>
            THEN Turn(symbol) ELSE next_direction
       /\ UNCHANGED <<etl_vars, stock_vars, snake, direction, food, game_over, score>>

NewHead == <<snake[1][1] + next_direction[1], snake[1][2] + next_direction[2]>>

HitsWall(h) == h[1] < 0 \/ h[1] >= GRID_WIDTH \/ h[2] < 0 \/ h[2] >= GRID_HEIGHT

\* update(dt) when the game is over: return at once
UpdateGameOver ==
  /\ game_over
  /\ UNCHANGED vars

\* update(dt): the new head is outside the grid or on the snake
UpdateCollision ==
  /\ ~game_over
  /\ HitsWall(NewHead) \/ NewHead \in Range(snake)
  /\ direction' = next_direction
  /\ game_over' = TRUE
  /\ UNCHANGED <<etl_vars, stock_vars, snake, next_direction, food, score>>

\* update(dt): the new head is on the food: the snake grows, new food is drawn
UpdateEat ==
  /\ ~game_over
  /\ ~HitsWall(NewHead)
  /\ NewHead \notin Range(snake)
  /\ NewHead = food
  /\ score < 10 * MaxFood
  /\ direction' = next_direction
  /\ snake' = <<NewHead>> \o snake
  /\ score' = score + 10
  /\ food' \in FreeCells(<<NewHead>> \o snake)
  /\ UNCHANGED <<etl_vars, stock_vars, next_direction, game_over>>

\* update(dt): the new head is on a free cell: the tail is popped
UpdateMove ==
  /\ ~game_over
  /\ ~HitsWall(NewHead)
  /\ NewHead \notin Range(snake)
  /\ NewHead # food
  /\ direction' = next_direction
  /\ snake' = <<NewHead>> \o SubSeq(snake, 1, Len(snake) - 1)
  /\ UNCHANGED <<etl_vars, stock_vars, next_direction, food, game_over, score>>

\* faulty variant of update (C10 must tell them apart): no early return when the game
\* is over
UpdateIgnoresGameOver ==
  \/ /\ game_over
     /\ snake' = <<NewHead>> \o SubSeq(snake, 1, Len(snake) - 1)
     /\ UNCHANGED <<etl_vars, stock_vars, direction, next_direction, food, game_over, score>>
  \/ UpdateCollision
  \/ UpdateEat
  \/ UpdateMove

\* update(dt), the clock's tick
update == UpdateGameOver \/ UpdateCollision \/ UpdateEat \/ UpdateMove

NextSnake ==
  \/ \E symbol \in Keys : on_key_press(symbol)
  \/ update

InitSnake == ETLInit /\ StockIdle /\ SnakeInit
SpecSnake == InitSnake /\ [][NextSnake]_vars

\* every segment is inside the grid, the segments are pairwise distinct, the food is
\* on no segment, and the length is SNAKE_INITIAL_LENGTH + score / 10
C10_SnakeInv ==
  /\ \A i \in DOMAIN snake : snake[i] \in Cells
  /\ \A i, j \in DOMAIN snake : i # j => snake[i] # snake[j]
  /\ food \notin Range(snake)
  /\ 10 * (Len(snake) - SNAKE_INITIAL_LENGTH) = score

\* a step that starts and ends with game_over set changes none of snake, food, score
C10_FrozenStep == (game_over /\ game_over') => UNCHANGED <<snake, food, score>>

\* C10: after any key presses, ticks and restarts every segment is inside the grid,
\* the segments are pairwise distinct, the food is on no segment and the length is
\* SNAKE_INITIAL_LENGTH + score / 10; once game_over is set, no step but a restart
\* changes snake, food or score.
C10_SnakeWellFormed == [](C10_SnakeInv) /\ [][C10_FrozenStep]_vars

\* the snake ate, turned and ran into itself or a wall: the game is over with a
\* grown snake
C10_Witness ==
  /\ game_over
  /\ score > 0
  /\ direction # <<1, 0>>

====
